---- MODULE Spec2Model ----
(***************************************************************************)
(* A model of the sa-react todo manager: the Data Access Layer             *)
(* (services/todoService), the TodoForm component with its Yup schema, the *)
(* combined list+form view (App with TodoForm), and the routed pages       *)
(* (TodosListPage, TodoFormPage).                                          *)
(*                                                                         *)
(* JavaScript runs one task at a time: every action below is one task (a   *)
(* user event, or the continuation of a settled promise) together with the *)
(* microtasks it triggers.  A title is a sequence of characters.  The      *)
(* value of the userId input is <<>> (empty, cast to NaN) or <<n>>.        *)
(***************************************************************************)
EXTENDS Integers, Sequences, FiniteSets, TLC

VARIABLES
    \* App (combined list + form view)
    todos, loading, error, showForm, editingTodo, loads,
    \* TodoForm (useState + react-hook-form state)
    values, defaultValues, errors, isSubmitted, isSubmitting, submitError,
    \* the create/update calls of the form that are in flight, oldest first
    pending,
    \* the Remote Todo Store: next identifier it assigns, requests it received
    nextId, calls,
    \* the routed pages: the current route, the TodoFormPage instances created
    \* so far (the last one is the current one while live), the getTodoById
    \* calls in flight
    route, pages, gets,
    \* the last task that ran (history, read by the properties only)
    last,
    \* FormReducerExample: the reducer state, the last action dispatched, the
    \* setTimeout callbacks that will dispatch RESET_FORM
    formState, dispatched, resetTimers,
    \* NotificationProviderExample: the list, the setTimeout callbacks that
    \* will remove a notification (oldest first), the clock Date.now() reads
    notifications, timers, now,
    \* AsyncReducerExample: the reducer state, the fetchData calls in flight
    fetchState, fetches

appVars  == <<todos, loading, error, showForm, editingTodo, loads>>
formVars == <<values, defaultValues, errors, isSubmitted, isSubmitting, submitError>>
pageVars == <<route, pages, gets>>
todoVars == <<appVars, formVars, pageVars, pending, nextId, calls, last>>
hookVars == <<formState, dispatched, resetTimers, notifications, timers, now,
              fetchState, fetches>>
vars     == <<todoVars, hookVars>>

-----------------------------------------------------------------------------
(* Bounds of the model *)

\* create/update requests the store receives in one run
MaxCalls == 2

\* TodoFormPage instances created in one run
MaxVisits == 2

\* create/update requests the store receives from the routed pages in one run
MaxPageCalls == 1

-----------------------------------------------------------------------------
(* Values *)

null    == [null |-> TRUE]      \* null / undefined object
nullMsg == "null"               \* null where a message string is expected

T_ab    == <<"a", "b">>
T_abc   == <<"a", "b", "c">>
T_blank == <<" ", " ", " ">>

\* the title made of n times the character c
Rep(c, n) == [i \in 1..n |-> c]

\* what the user types into the fields of the form
FormTitles  == {<<>>, T_ab, T_abc, T_blank}
FormUserIds == {<<>>, <<1>>, <<11>>}

\* what the user types into the form of the routed pages
PageTitles  == {T_ab, T_abc}

\* GET /todos of the store
InitialTodos ==
    << [id |-> 1, title |-> T_abc, completed |-> FALSE, userId |-> 1],
       [id |-> 2, title |-> T_abc, completed |-> TRUE,  userId |-> 1] >>

\* the failures axios reports: a non-2xx response, no response, a setup error
AxiosErrors ==
    { [response |-> [status |-> 500, data |-> "{}"], request |-> TRUE,  message |-> "Request failed with status code 500"],
      [response |-> null,                            request |-> TRUE,  message |-> "Network Error"],
      [response |-> null,                            request |-> FALSE, message |-> ""] }

-----------------------------------------------------------------------------
(* The hook examples: initial state of each component *)

\* FormReducerExample: initialFormState
initialFormState ==
    [firstName |-> <<>>, lastName |-> <<>>, email |-> <<>>,
     errors |-> [f \in {} |-> ""], submitted |-> FALSE]

\* AsyncReducerExample: the initial state given to useReducer
initialFetchState == [loading |-> FALSE, data |-> null, error |-> nullMsg]

\* every example component after its first render
InitHooks ==
    /\ formState = initialFormState
    /\ dispatched = [type |-> "none"]
    /\ resetTimers = 0
    /\ notifications = <<>>
    /\ timers = <<>>
    /\ now = 1
    /\ fetchState = initialFetchState
    /\ fetches = <<>>

-----------------------------------------------------------------------------
(* FormReducerExample (hooks/04_useReducer): a form held in a reducer      *)

\* RESET_FORM timers outstanding at one time
MaxResetTimers == 1

FormFields == {"firstName", "lastName", "email"}

\* what the user types into a field
E_a   == <<"a">>
E_abc == <<"a", "@", "b", ".", "c">>
FieldValues == {<<>>, E_a, E_abc}

\* /^[^\s@]+@[^\s@]+\.[^\s@]+$/.test(email)
validateEmail(email) ==
    /\ \A i \in DOMAIN email : email[i] # " "
    /\ Cardinality({i \in DOMAIN email : email[i] = "@"}) = 1
    /\ \E p \in DOMAIN email :
         /\ email[p] = "@"
         /\ p > 1
         /\ \E q \in DOMAIN email : email[q] = "." /\ q > p + 1 /\ q < Len(email)

\* a reducer whose SET_FIELD clears the errors of all fields
formReducer_clearAll(state, action) ==
    IF action.type = "SET_FIELD"
    THEN [f \in DOMAIN state \cup {action.field} |->
            IF f = "errors" THEN [g \in {action.field} |-> ""]
            ELSE IF f = action.field THEN action.value
            ELSE state[f]]
    ELSE state

\* formReducer(state, action)
formReducer(state, action) ==
    CASE action.type = "SET_FIELD" ->
           [f \in DOMAIN state \cup {action.field, "errors"} |->
              IF f = "errors"
              THEN [g \in DOMAIN state.errors \cup {action.field} |->
                      IF g = action.field THEN "" ELSE state.errors[g]]
              ELSE IF f = action.field THEN action.value
              ELSE state[f]]
      [] action.type = "SET_ERROR" ->
           [f \in DOMAIN state \cup {"errors"} |->
              IF f = "errors"
              THEN [g \in DOMAIN state.errors \cup {action.field} |->
                      IF g = action.field THEN action.message ELSE state.errors[g]]
              ELSE state[f]]
      [] action.type = "RESET_FORM" ->
           [firstName |-> <<>>, lastName |-> <<>>, email |-> <<>>,
            errors |-> [f \in {} |-> ""]]
      [] action.type = "SUBMIT" ->
           [f \in DOMAIN state \cup {"submitted"} |->
              IF f = "submitted" THEN TRUE ELSE state[f]]
      [] OTHER -> state

\* the actions are reduced in the order they were dispatched
RECURSIVE ReduceAll(_, _)
ReduceAll(state, actions) ==
    IF actions = <<>> THEN state
    ELSE ReduceAll(formReducer(state, Head(actions)), Tail(actions))

\* dispatch of the actions of one event, in order
FormDispatch(actions) ==
    /\ formState' = ReduceAll(formState, actions)
    /\ dispatched' = actions[Len(actions)]

\* handleChange: onChange of an input
FormHandleChange ==
    /\ \E field \in FormFields, value \in FieldValues :
         /\ value # formState[field]
         /\ FormDispatch(<<[type |-> "SET_FIELD", field |-> field, value |-> value]>>)
    /\ UNCHANGED <<resetTimers, notifications, timers, now, fetchState, fetches, todoVars>>

\* the SET_ERROR actions handleSubmit dispatches for the state it was
\* rendered with
SubmitErrors(state) ==
    (IF state.firstName = <<>>
     THEN <<[type |-> "SET_ERROR", field |-> "firstName", message |-> "First name required"]>>
     ELSE <<>>)
    \o (IF state.email = <<>> \/ ~validateEmail(state.email)
        THEN <<[type |-> "SET_ERROR", field |-> "email", message |-> "Valid email required"]>>
        ELSE <<>>)

\* handleSubmit: with errors it dispatches them; without, it dispatches
\* SUBMIT and sets the timer that resets the form 2 s later
FormHandleSubmit ==
    /\ resetTimers < MaxResetTimers
    /\ IF SubmitErrors(formState) # <<>>
       THEN /\ FormDispatch(SubmitErrors(formState))
            /\ UNCHANGED resetTimers
       ELSE /\ FormDispatch(<<[type |-> "SUBMIT"]>>)
            /\ resetTimers' = resetTimers + 1
    /\ UNCHANGED <<notifications, timers, now, fetchState, fetches, todoVars>>

\* the timer of a successful submit fires
FormResetTimerFires ==
    /\ resetTimers > 0
    /\ FormDispatch(<<[type |-> "RESET_FORM"]>>)
    /\ resetTimers' = resetTimers - 1
    /\ UNCHANGED <<notifications, timers, now, fetchState, fetches, todoVars>>

\* the Clear button
FormClickClear ==
    /\ FormDispatch(<<[type |-> "RESET_FORM"]>>)
    /\ UNCHANGED <<resetTimers, notifications, timers, now, fetchState, fetches, todoVars>>

\* an action of a type the reducer does not know
FormDispatchUnknown ==
    /\ \E t \in {"UNKNOWN", "set_field"} : FormDispatch(<<[type |-> t]>>)
    /\ UNCHANGED <<resetTimers, notifications, timers, now, fetchState, fetches, todoVars>>

NextFormReducer ==
    \/ FormHandleChange
    \/ FormHandleSubmit
    \/ FormResetTimerFires
    \/ FormClickClear
    \/ FormDispatchUnknown

-----------------------------------------------------------------------------
(* NotificationProviderExample (hooks/03_useContext): toast messages that  *)
(* remove themselves.  addNotification and removeNotification are created  *)
(* by each render and read the notifications of that render.               *)

\* notifications added in one run
MaxNotifications == 4

\* the buttons of NotificationTriggerComponent
NotificationButtons ==
    { [message |-> "Success!", type |-> "success"],
      [message |-> "Error occurred!", type |-> "error"],
      [message |-> "Info message", type |-> "info"] }

\* notifications.filter(n => n.id !== id)
FilterOut(list, id) == SelectSeq(list, LAMBDA n : n.id # id)

\* removeNotification(id) of the render whose notifications are closure
removeNotification(closure, id) == FilterOut(closure, id)

\* a button is clicked: addNotification(message, type) of the current render
\* sets the list and the timer; the clock has moved on by the next click
NotifyAdd ==
    /\ now <= MaxNotifications
    /\ \E b \in NotificationButtons :
         notifications' =
             Append(notifications, [id |-> now, message |-> b.message, type |-> b.type])
    /\ timers' = Append(timers, [id |-> now, closure |-> notifications])
    /\ now' = now + 1
    /\ UNCHANGED <<formState, dispatched, resetTimers, fetchState, fetches, todoVars>>

\* 3 s after an addNotification its timer fires: the removeNotification of
\* the render that made the call runs
NotifyTimerFires ==
    /\ timers # <<>>
    /\ notifications' = removeNotification(timers[1].closure, timers[1].id)
    /\ timers' = Tail(timers)
    /\ UNCHANGED <<now, formState, dispatched, resetTimers, fetchState, fetches, todoVars>>

NextNotifications ==
    \/ NotifyAdd
    \/ NotifyTimerFires

-----------------------------------------------------------------------------
(* AsyncReducerExample (hooks/04_useReducer): a fetch tracked by a reducer. *)
(* fetches holds the fetchData calls in flight with the await each is at:   *)
(* "fetch" (the request) or "json" (the parsing of the response body).      *)

\* fetchData calls in flight at one time
MaxFetches == 4

\* what response.json() resolves to
FetchPayloads == { [value |-> 1], [value |-> 2], [value |-> 3] }

\* fetchReducer(state, action)
fetchReducer(state, action) ==
    CASE action.type = "FETCH_START" ->
           [loading |-> TRUE, data |-> null, error |-> nullMsg]
      [] action.type = "FETCH_SUCCESS" ->
           [loading |-> FALSE, data |-> action.payload, error |-> nullMsg]
      [] action.type = "FETCH_ERROR" ->
           [loading |-> FALSE, data |-> null, error |-> action.payload]
      [] OTHER -> state

\* the Fetch Data button: fetchData(url) dispatches FETCH_START and awaits
\* fetch(url); the button is never disabled
FetchClick ==
    /\ Len(fetches) < MaxFetches
    /\ fetchState' = fetchReducer(fetchState, [type |-> "FETCH_START"])
    /\ fetches' = Append(fetches, "fetch")
    /\ UNCHANGED <<formState, dispatched, resetTimers, notifications, timers, now, todoVars>>

\* fetch(url) of call i resolved: fetchData awaits response.json()
FetchResponded ==
    /\ \E i \in DOMAIN fetches :
         /\ fetches[i] = "fetch"
         /\ fetches' = [fetches EXCEPT ![i] = "json"]
    /\ UNCHANGED fetchState
    /\ UNCHANGED <<formState, dispatched, resetTimers, notifications, timers, now, todoVars>>

\* response.json() of call i resolved: FETCH_SUCCESS
FetchSucceeded ==
    /\ \E i \in DOMAIN fetches, data \in FetchPayloads :
         /\ fetches[i] = "json"
         /\ fetchState' = fetchReducer(fetchState, [type |-> "FETCH_SUCCESS", payload |-> data])
         /\ fetches' = SubSeq(fetches, 1, i - 1) \o SubSeq(fetches, i + 1, Len(fetches))
    /\ UNCHANGED <<formState, dispatched, resetTimers, notifications, timers, now, todoVars>>

\* fetch(url) or response.json() of call i rejected: catch, FETCH_ERROR with
\* error.message
FetchFailed ==
    /\ \E i \in DOMAIN fetches :
         /\ fetchState' =
              fetchReducer(fetchState,
                  [type |-> "FETCH_ERROR",
                   payload |-> IF fetches[i] = "fetch" THEN "Failed to fetch"
                               ELSE "Unexpected end of JSON input"])
         /\ fetches' = SubSeq(fetches, 1, i - 1) \o SubSeq(fetches, i + 1, Len(fetches))
    /\ UNCHANGED <<formState, dispatched, resetTimers, notifications, timers, now, todoVars>>

NextFetch ==
    \/ FetchClick
    \/ FetchResponded
    \/ FetchSucceeded
    \/ FetchFailed

-----------------------------------------------------------------------------
(* Data Access Layer: services/todoService *)

RECURSIVE trimStart(_)
trimStart(s) == IF s # <<>> /\ Head(s) = " " THEN trimStart(Tail(s)) ELSE s

RECURSIVE trimEnd(_)
trimEnd(s) == IF s # <<>> /\ s[Len(s)] = " " THEN trimEnd(SubSeq(s, 1, Len(s) - 1)) ELSE s

trim(s) == trimEnd(trimStart(s))

Has(r, f) == f \in DOMAIN r

\* the catch block shared by the four service functions
NormalizeError(e, fallback) ==
    IF e.response # null
    THEN "API error " \o ToString(e.response.status) \o ": " \o e.response.data
    ELSE IF e.request
    THEN "No response received from Todos API"
    ELSE IF e.message # "" THEN e.message ELSE fallback

\* a guard that only looks for a missing or empty title
TitleMissing_noTrim(todoData) ==
    \/ ~Has(todoData, "title")
    \/ todoData.title = <<>>

\* !todoData.title || todoData.title.trim() === ''
TitleMissing(todoData) ==
    \/ ~Has(todoData, "title")
    \/ todoData.title = <<>>
    \/ trim(todoData.title) = <<>>

\* the payload object both addTodo and updateTodo build
Payload(todoData) ==
    [ title     |-> todoData.title,
      completed |-> IF Has(todoData, "completed") THEN todoData.completed ELSE FALSE,
      userId    |-> IF Has(todoData, "userId") /\ todoData.userId # 0 THEN todoData.userId ELSE 1 ]

\* addTodo up to its await: a rejection by the guard, or the request it sends
addTodo(todoData) ==
    IF TitleMissing(todoData)
    THEN [sent |-> FALSE, message |-> "Todo title is required"]
    ELSE [sent |-> TRUE, op |-> "create", id |-> 0, payload |-> Payload(todoData)]

\* updateTodo up to its await
\* (the id argument is <<>> for undefined/null, <<n>> for the identifier n)
updateTodo(id, todoData) ==
    IF id = <<>>
    THEN [sent |-> FALSE, message |-> "Todo id is required"]
    ELSE IF TitleMissing(todoData)
    THEN [sent |-> FALSE, message |-> "Todo title is required"]
    ELSE [sent |-> TRUE, op |-> "update", id |-> id[1], payload |-> Payload(todoData)]

\* the Todo the store answers with: POST assigns the identifier, PUT keeps it
StoreResponse(req, newId) ==
    [ id        |-> IF req.op = "create" THEN newId ELSE req.id,
      title     |-> req.payload.title,
      completed |-> req.payload.completed,
      userId    |-> req.payload.userId ]

SubmitFallback(op) ==
    IF op = "create" THEN "Unknown error creating todo" ELSE "Unknown error updating todo"

-----------------------------------------------------------------------------
(* Validation Schema: todoValidationSchema, run by yupResolver *)

TitleMin  == 3
TitleMax  == 100
UserIdMin == 1
UserIdMax == 10

NoErrors == [f \in {} |-> ""]

\* a title schema without its max test
TitleTests_noMax(title) ==
    (IF Len(title) < TitleMin THEN <<"Title must be at least 3 characters">> ELSE <<>>)
    \o (IF Len(title) = 0 THEN <<"Title is required">> ELSE <<>>)

\* the failing tests of title, in the order the schema lists them
TitleTests(title) ==
    (IF Len(title) < TitleMin THEN <<"Title must be at least 3 characters">> ELSE <<>>)
    \o (IF Len(title) > TitleMax THEN <<"Title must not exceed 100 characters">> ELSE <<>>)
    \o (IF Len(title) = 0 THEN <<"Title is required">> ELSE <<>>)

\* a userId schema that lets a value that is not a number through
UserIdTests_noCast(userId) ==
    IF userId = <<>>
    THEN <<>>
    ELSE (IF userId[1] < UserIdMin THEN <<"User ID must be at least 1">> ELSE <<>>)
         \o (IF userId[1] > UserIdMax THEN <<"User ID must not exceed 10">> ELSE <<>>)

\* the failing tests of userId: the cast to a number first, then min and max
UserIdTests(userId) ==
    IF userId = <<>>
    THEN <<"userId must be a number type">>
    ELSE (IF userId[1] < UserIdMin THEN <<"User ID must be at least 1">> ELSE <<>>)
         \o (IF userId[1] > UserIdMax THEN <<"User ID must not exceed 10">> ELSE <<>>)

FieldTests(draft, f) ==
    IF f = "title" THEN TitleTests(draft.title) ELSE UserIdTests(draft.userId)

\* a schema validated with abortEarly: only the first failing field is reported
todoValidationSchema_abortEarly(draft) ==
    IF FieldTests(draft, "title") # <<>>
    THEN [f \in {"title"} |-> Head(FieldTests(draft, "title"))]
    ELSE [f \in {g \in {"userId"} : FieldTests(draft, g) # <<>>} |->
            Head(FieldTests(draft, f))]

\* every field is validated (no abort on the first failing field); the
\* resolver keeps the first message of each failing field
todoValidationSchema(draft) ==
    [f \in {g \in {"title", "userId"} : FieldTests(draft, g) # <<>>} |->
        Head(FieldTests(draft, f))]

\* a form wired without its resolver: no field is ever reported
resolver_none(draft) == NoErrors

\* resolver: yupResolver(todoValidationSchema)
resolver(draft) == todoValidationSchema(draft)

\* the data handed to onSubmit: the values as the schema casts them (an empty
\* userId input casts to NaN, which is falsy as 0 is: written 0 here)
YupCast(draft) ==
    [title |-> draft.title, completed |-> draft.completed,
     userId |-> IF draft.userId = <<>> THEN 0 ELSE draft.userId[1]]

-----------------------------------------------------------------------------
(* TodoForm *)

EmptyDefaults == [title |-> <<>>, completed |-> FALSE, userId |-> <<1>>]

\* a form that never takes the edit branch
isEditMode_never(initialData) == FALSE

\* const isEditMode = !!initialData?.id
isEditMode(initialData) ==
    initialData # null /\ Has(initialData, "id") /\ initialData.id # 0

\* defaultValues: initialData || { title: '', completed: false, userId: 1 }
DefaultValues(initialData) ==
    IF initialData # null
    THEN [title |-> initialData.title, completed |-> initialData.completed,
          userId |-> <<initialData.userId>>]
    ELSE EmptyDefaults

\* first render of a TodoForm instance: useState and useForm initial state
FormMount(initialData) ==
    /\ values' = DefaultValues(initialData)
    /\ defaultValues' = DefaultValues(initialData)
    /\ errors' = NoErrors
    /\ isSubmitted' = FALSE
    /\ isSubmitting' = FALSE
    /\ submitError' = nullMsg

\* reset() of react-hook-form, without arguments
FormReset ==
    /\ values' = defaultValues
    /\ errors' = NoErrors

\* a submit button that is never disabled
SubmitDisabled_never == FALSE

\* the submit button and the inputs carry disabled={isSubmitting}
SubmitDisabled == isSubmitting

\* a registered input changes; after a first submit react-hook-form
\* re-validates the changed field (reValidateMode onChange)
FormChange(f, v) ==
    /\ ~isSubmitting
    /\ values' = [values EXCEPT ![f] = v]
    /\ values' # values
    /\ errors' =
         IF isSubmitted /\ f # "completed"
         THEN LET e == todoValidationSchema(values')
              IN [g \in ((DOMAIN errors) \ {f}) \cup ({f} \cap DOMAIN e) |->
                    IF g = f THEN e[g] ELSE errors[g]]
         ELSE errors
    /\ UNCHANGED <<defaultValues, isSubmitted, isSubmitting, submitError>>

\* the service call onSubmit makes for the cast data
SubmitCall(initialData, data) ==
    IF isEditMode(initialData)
    THEN updateTodo(<<initialData.id>>, data)
    ELSE addTodo(data)

\* an onSubmit that starts without setSubmitError(null)
FormSubmit_noClear(initialData, closure) ==
    /\ ~SubmitDisabled
    /\ LET errs == resolver(values)
           r    == SubmitCall(initialData, YupCast(values))
       IN IF errs # NoErrors
          THEN /\ errors' = errs
               /\ isSubmitted' = TRUE
               /\ UNCHANGED <<isSubmitting, submitError, pending, calls>>
               /\ last' = [ev |-> "submit", outcome |-> "invalid"]
          ELSE /\ errors' = NoErrors
               /\ IF r.sent
                  THEN /\ isSubmitting' = TRUE
                       /\ UNCHANGED submitError
                       /\ pending' = Append(pending, [req |-> r, closure |-> closure])
                       /\ calls' = calls + 1
                       /\ UNCHANGED isSubmitted
                       /\ last' = [ev |-> "submit", outcome |-> "sent",
                                   retry |-> submitError # nullMsg]
                  ELSE /\ isSubmitting' = FALSE
                       /\ submitError' = r.message
                       /\ isSubmitted' = TRUE
                       /\ UNCHANGED <<pending, calls>>
                       /\ last' = [ev |-> "submit", outcome |-> "guard"]
    /\ UNCHANGED <<values, defaultValues>>

\* handleSubmit(onSubmit) on a submit event, up to the await of the service
\* call: the resolver runs; with field errors onSubmit is not called; else
\* onSubmit starts, and a guard rejection of the service is caught at once
FormSubmit(initialData, closure) ==
    /\ ~SubmitDisabled
    /\ LET errs == resolver(values)
           r    == SubmitCall(initialData, YupCast(values))
       IN IF errs # NoErrors
          THEN /\ errors' = errs
               /\ isSubmitted' = TRUE
               /\ UNCHANGED <<isSubmitting, submitError, pending, calls>>
               /\ last' = [ev |-> "submit", outcome |-> "invalid"]
          ELSE /\ errors' = NoErrors
               /\ IF r.sent
                  THEN /\ isSubmitting' = TRUE
                       /\ submitError' = nullMsg
                       /\ pending' = Append(pending, [req |-> r, closure |-> closure])
                       /\ calls' = calls + 1
                       /\ UNCHANGED isSubmitted
                       /\ last' = [ev |-> "submit", outcome |-> "sent",
                                   retry |-> submitError # nullMsg]
                  ELSE /\ isSubmitting' = FALSE
                       /\ submitError' = r.message
                       /\ isSubmitted' = TRUE
                       /\ UNCHANGED <<pending, calls>>
                       /\ last' = [ev |-> "submit", outcome |-> "guard"]
    /\ UNCHANGED <<values, defaultValues>>

\* a success path that forgets reset()
FormResolved_noReset ==
    /\ isSubmitting' = FALSE
    /\ isSubmitted' = TRUE
    /\ UNCHANGED <<values, errors, defaultValues, submitError>>

\* onSubmit after the await, the call resolved: reset(), then (by the host)
\* onSubmitSuccess(result), then finally setIsSubmitting(false)
FormResolved ==
    /\ FormReset
    /\ isSubmitting' = FALSE
    /\ isSubmitted' = TRUE
    /\ UNCHANGED <<defaultValues, submitError>>

\* a failure path that resets the draft as the success path does
FormRejected_reset(req, e) ==
    /\ submitError' = NormalizeError(e, SubmitFallback(req.op))
    /\ FormReset
    /\ isSubmitting' = FALSE
    /\ isSubmitted' = TRUE
    /\ UNCHANGED defaultValues

\* a failure path without the finally block: isSubmitting is never set back
FormRejected_stuck(req, e) ==
    /\ submitError' = NormalizeError(e, SubmitFallback(req.op))
    /\ UNCHANGED <<values, defaultValues, errors, isSubmitted, isSubmitting>>

\* onSubmit after the await, the call of request req rejected with the axios
\* error e: catch, then finally
FormRejected(req, e) ==
    /\ submitError' =
         LET m == NormalizeError(e, SubmitFallback(req.op))
         IN IF m # "" THEN m ELSE "Failed to save todo. Please try again."
    /\ isSubmitting' = FALSE
    /\ isSubmitted' = TRUE
    /\ UNCHANGED <<values, defaultValues, errors>>

\* a Cancel button that only calls onCancel()
FormCancel_keep ==
    /\ ~isSubmitting
    /\ UNCHANGED formVars

\* handleCancel: reset(), then (by the host) onCancel(); reset() also takes
\* the form state back to not submitted
FormCancel ==
    /\ ~isSubmitting
    /\ FormReset
    /\ isSubmitted' = FALSE
    /\ UNCHANGED <<defaultValues, isSubmitting, submitError>>

-----------------------------------------------------------------------------
(* The list load of a list view: the useEffect of App and of TodosListPage *)
(* loads holds the getTodos calls in flight, each with the `mounted` flag  *)
(* of the effect closure that made it.                                     *)

\* first render and effect of a list view instance
ListMount ==
    /\ todos' = <<>>
    /\ loading' = TRUE
    /\ error' = nullMsg
    /\ loads' = Append(loads, [mounted |-> TRUE])

\* the effect's cleanup: mounted = false
ListCleanup ==
    loads' = [i \in DOMAIN loads |-> [mounted |-> FALSE]]

Remove(s, i) == SubSeq(s, 1, i - 1) \o SubSeq(s, i + 1, Len(s))

\* a .then and .finally that do not look at the mounted flag
GetTodosResolved_unguarded(i, data) ==
    /\ i \in DOMAIN loads
    /\ todos' = data
    /\ loading' = FALSE
    /\ UNCHANGED error
    /\ loads' = Remove(loads, i)

\* getTodos resolved with data: .then, then .finally
GetTodosResolved(i, data) ==
    /\ i \in DOMAIN loads
    /\ IF loads[i].mounted
       THEN /\ todos' = data
            /\ loading' = FALSE
       ELSE UNCHANGED <<todos, loading>>
    /\ UNCHANGED error
    /\ loads' = Remove(loads, i)

\* a failure path without .finally: loading is never set back
GetTodosRejected_keepLoading(i, e) ==
    /\ i \in DOMAIN loads
    /\ IF loads[i].mounted
       THEN error' = NormalizeError(e, "Unknown error fetching todos")
       ELSE UNCHANGED error
    /\ UNCHANGED <<todos, loading>>
    /\ loads' = Remove(loads, i)

\* getTodos rejected with the axios error e: .catch, then .finally
GetTodosRejected(i, e) ==
    /\ i \in DOMAIN loads
    /\ IF loads[i].mounted
       THEN /\ error' =
                 LET m == NormalizeError(e, "Unknown error fetching todos")
                 IN IF m # "" THEN m ELSE "Error"
            /\ loading' = FALSE
       ELSE UNCHANGED <<error, loading>>
    /\ UNCHANGED todos
    /\ loads' = Remove(loads, i)

\* {!loading && !error && <table>}: the rows and their Edit buttons
TableShown == ~loading /\ error = nullMsg

-----------------------------------------------------------------------------
(* App: the combined list + form view *)

\* a callback that prepends in update mode too
onSubmitSuccessTodos_prepend(closure, newTodo) == <<newTodo>> \o closure.todos

\* the list the onSubmitSuccess closure sets: it reads the todos and the
\* editingTodo of the render that created it
onSubmitSuccessTodos(closure, newTodo) ==
    IF closure.editingTodo # null
    THEN [i \in DOMAIN closure.todos |->
            IF closure.todos[i].id = newTodo.id THEN newTodo ELSE closure.todos[i]]
    ELSE <<newTodo>> \o closure.todos

InitApp ==
    /\ todos = <<>>
    /\ loading = TRUE
    /\ error = nullMsg
    /\ showForm = FALSE
    /\ editingTodo = null
    /\ loads = <<[mounted |-> TRUE]>>
    /\ values = EmptyDefaults
    /\ defaultValues = EmptyDefaults
    /\ errors = NoErrors
    /\ isSubmitted = FALSE
    /\ isSubmitting = FALSE
    /\ submitError = nullMsg
    /\ pending = <<>>
    /\ nextId = Len(InitialTodos) + 1
    /\ calls = 0
    /\ route = "/"
    /\ pages = <<>>
    /\ gets = <<>>
    /\ last = [ev |-> "init"]
    /\ InitHooks

AppLoadResolved ==
    /\ GetTodosResolved(1, InitialTodos)
    /\ last' = [ev |-> "loaded"]
    /\ UNCHANGED <<pageVars, showForm, editingTodo, formVars, pending, nextId, calls>>
    /\ UNCHANGED hookVars

AppLoadRejected ==
    /\ \E e \in AxiosErrors : GetTodosRejected(1, e)
    /\ last' = [ev |-> "loadFailed"]
    /\ UNCHANGED <<pageVars, showForm, editingTodo, formVars, pending, nextId, calls>>
    /\ UNCHANGED hookVars

\* "+ Add New Todo"
AppClickAdd ==
    /\ ~showForm
    /\ editingTodo' = null
    /\ showForm' = TRUE
    /\ FormMount(null)
    /\ last' = [ev |-> "open"]
    /\ UNCHANGED <<pageVars, todos, loading, error, loads, pending, nextId, calls>>
    /\ UNCHANGED hookVars

\* "Edit" of row i; a form that is already shown keeps its instance
AppClickEdit ==
    /\ TableShown
    /\ \E i \in DOMAIN todos :
         /\ editingTodo' = todos[i]
         /\ editingTodo' # editingTodo
         /\ showForm' = TRUE
         /\ IF showForm THEN UNCHANGED formVars ELSE FormMount(todos[i])
    /\ last' = [ev |-> "open"]
    /\ UNCHANGED <<pageVars, todos, loading, error, loads, pending, nextId, calls>>
    /\ UNCHANGED hookVars

AppChange ==
    /\ showForm
    /\ \/ \E v \in FormTitles : FormChange("title", v)
       \/ \E v \in BOOLEAN : FormChange("completed", v)
       \/ \E v \in FormUserIds : FormChange("userId", v)
    /\ last' = [ev |-> "change"]
    /\ UNCHANGED <<pageVars, appVars, pending, nextId, calls>>
    /\ UNCHANGED hookVars

AppSubmit ==
    /\ showForm
    /\ calls < MaxCalls
    /\ FormSubmit(editingTodo, [todos |-> todos, editingTodo |-> editingTodo])
    /\ UNCHANGED <<pageVars, appVars, nextId>>
    /\ UNCHANGED hookVars

\* onSubmitSuccess of App, called with the store's Todo
AppOnSubmitSuccess(closure, newTodo) ==
    /\ todos' = onSubmitSuccessTodos(closure, newTodo)
    /\ showForm' = FALSE
    /\ editingTodo' = null
    /\ last' = [ev |-> "resolved", result |-> newTodo, handed |-> <<newTodo>>]

AppSubmitResolved ==
    /\ \E i \in DOMAIN pending :
         /\ FormResolved
         /\ AppOnSubmitSuccess(pending[i].closure, StoreResponse(pending[i].req, nextId))
         /\ nextId' = IF pending[i].req.op = "create" THEN nextId + 1 ELSE nextId
         /\ pending' = Remove(pending, i)
    /\ UNCHANGED <<pageVars, loading, error, loads, calls>>
    /\ UNCHANGED hookVars

AppSubmitRejected ==
    /\ \E i \in DOMAIN pending :
         /\ \E e \in AxiosErrors : FormRejected(pending[i].req, e)
         /\ pending' = Remove(pending, i)
    /\ last' = [ev |-> "rejected"]
    /\ UNCHANGED <<pageVars, appVars, nextId, calls>>
    /\ UNCHANGED hookVars

AppCancel ==
    /\ showForm
    /\ FormCancel
    /\ showForm' = FALSE
    /\ editingTodo' = null
    /\ last' = [ev |-> "cancel", edited |-> values # defaultValues]
    /\ UNCHANGED <<pageVars, todos, loading, error, loads, pending, nextId, calls>>
    /\ UNCHANGED hookVars

NextApp ==
    \/ AppLoadResolved
    \/ AppLoadRejected
    \/ AppClickAdd
    \/ AppClickEdit
    \/ AppChange
    \/ AppSubmit
    \/ AppSubmitResolved
    \/ AppSubmitRejected
    \/ AppCancel

SpecApp == InitApp /\ [][NextApp]_vars

\* a create or update call in flight settles: the store answers, or axios
\* gives up after its timeout of 10 s
AppSubmitSettled == AppSubmitResolved \/ AppSubmitRejected

\* App where every call in flight eventually settles
SpecAppFair == SpecApp /\ WF_vars(AppSubmitSettled)

-----------------------------------------------------------------------------
(* The add form holding any draft, submitted (SpecValidation): the schema  *)
(* and the submit path of the form over the drafts at and around the       *)
(* limits of the schema.                                                   *)

\* titles of length 0, 2, 3, 100 and 101, and a title of spaces
DraftTitles  == {<<>>, T_ab, T_abc, T_blank, Rep("a", TitleMax), Rep("a", TitleMax + 1)}

\* userId inputs: empty (not a number), and numbers at and around the limits
DraftUserIds == {<<>>, <<0>>, <<1>>, <<10>>, <<11>>}

\* App with the add form open and a draft typed into it, before the list
\* load settles
InitValidation ==
    /\ todos = <<>>
    /\ loading = TRUE
    /\ error = nullMsg
    /\ showForm = TRUE
    /\ editingTodo = null
    /\ loads = <<[mounted |-> TRUE]>>
    /\ values \in [title : DraftTitles, completed : BOOLEAN, userId : DraftUserIds]
    /\ defaultValues = EmptyDefaults
    /\ errors = NoErrors
    /\ isSubmitted = FALSE
    /\ isSubmitting = FALSE
    /\ submitError = nullMsg
    /\ pending = <<>>
    /\ nextId = Len(InitialTodos) + 1
    /\ calls = 0
    /\ route = "/"
    /\ pages = <<>>
    /\ gets = <<>>
    /\ last = [ev |-> "init"]
    /\ InitHooks

NextValidation ==
    \/ AppSubmit
    \/ AppSubmitResolved
    \/ AppSubmitRejected

SpecValidation == InitValidation /\ [][NextValidation]_vars

-----------------------------------------------------------------------------
(* TodoFormWithoutYup: the form validated by the register rules of         *)
(* react-hook-form and a manual check in onSubmit (SpecNoYup).  It takes   *)
(* the props of TodoForm; it is hosted here as App hosts TodoForm.         *)

T_padded == <<"a", "b", " ">>

\* the rules of register('title'): required, then maxLength, then minLength;
\* the first failing rule gives the message
TitleRules(title) ==
    IF title = <<>> THEN <<"Title is required">>
    ELSE IF Len(title) > 100 THEN <<"Maximum 100 characters">>
    ELSE IF Len(title) < 3 THEN <<"Minimum 3 characters">>
    ELSE <<>>

\* the rules of register('userId') with valueAsNumber: required, then min
\* and max
UserIdRules(userId) ==
    IF userId = <<>> THEN <<"User ID required">>
    ELSE IF userId[1] > 10 THEN <<"Max 10">>
    ELSE IF userId[1] < 1 THEN <<"Min 1">>
    ELSE <<>>

FieldRules(draft, f) ==
    IF f = "title" THEN TitleRules(draft.title) ELSE UserIdRules(draft.userId)

\* the field errors handleSubmit finds without a resolver
registerRules(draft) ==
    [f \in {g \in {"title", "userId"} : FieldRules(draft, g) # <<>>} |->
        Head(FieldRules(draft, f))]

\* const payload = { ...data, userId: Number(data.userId) }
NoYupPayload(draft) ==
    [title |-> draft.title, completed |-> draft.completed,
     userId |-> IF draft.userId = <<>> THEN 0 ELSE draft.userId[1]]

\* !payload.title || payload.title.trim().length < 3
ManualTitleCheckFails(payload) ==
    payload.title = <<>> \/ Len(trim(payload.title)) < 3

\* handleSubmit(onSubmit) of TodoFormWithoutYup on a submit event, up to the
\* await of the service call
NoYupSubmit(initialData, closure) ==
    /\ ~SubmitDisabled
    /\ LET errs    == registerRules(values)
           payload == NoYupPayload(values)
           r       == SubmitCall(initialData, payload)
       IN IF errs # NoErrors
          THEN /\ errors' = errs
               /\ isSubmitted' = TRUE
               /\ UNCHANGED <<isSubmitting, submitError, pending, calls>>
               /\ last' = [ev |-> "submit", outcome |-> "invalid"]
          ELSE /\ errors' = NoErrors
               /\ IF ManualTitleCheckFails(payload)
                  THEN /\ isSubmitting' = FALSE
                       /\ submitError' = "Title is required and must be at least 3 characters."
                       /\ isSubmitted' = TRUE
                       /\ UNCHANGED <<pending, calls>>
                       /\ last' = [ev |-> "submit", outcome |-> "manual"]
                  ELSE IF r.sent
                  THEN /\ isSubmitting' = TRUE
                       /\ submitError' = nullMsg
                       /\ pending' = Append(pending, [req |-> r, closure |-> closure])
                       /\ calls' = calls + 1
                       /\ UNCHANGED isSubmitted
                       /\ last' = [ev |-> "submit", outcome |-> "sent",
                                   retry |-> submitError # nullMsg]
                  ELSE /\ isSubmitting' = FALSE
                       /\ submitError' = r.message
                       /\ isSubmitted' = TRUE
                       /\ UNCHANGED <<pending, calls>>
                       /\ last' = [ev |-> "submit", outcome |-> "guard"]
    /\ UNCHANGED <<values, defaultValues>>

\* the drafts typed into the form: those of SpecValidation, and a title of
\* two letters followed by a space
NoYupTitles == DraftTitles \cup {T_padded}

\* the host with the list loaded and the form open, in add mode or for the
\* first todo, and a draft typed into it
InitNoYup ==
    /\ todos = InitialTodos
    /\ loading = FALSE
    /\ error = nullMsg
    /\ showForm = TRUE
    /\ editingTodo \in {null, InitialTodos[1]}
    /\ loads = <<>>
    /\ values \in [title : NoYupTitles, completed : BOOLEAN, userId : DraftUserIds]
    /\ defaultValues = DefaultValues(editingTodo)
    /\ errors = NoErrors
    /\ isSubmitted = FALSE
    /\ isSubmitting = FALSE
    /\ submitError = nullMsg
    /\ pending = <<>>
    /\ nextId = Len(InitialTodos) + 1
    /\ calls = 0
    /\ route = "/"
    /\ pages = <<>>
    /\ gets = <<>>
    /\ last = [ev |-> "init"]
    /\ InitHooks

NoYupAppSubmit ==
    /\ showForm
    /\ calls < MaxCalls
    /\ NoYupSubmit(editingTodo, [todos |-> todos, editingTodo |-> editingTodo])
    /\ UNCHANGED <<pageVars, appVars, nextId>>
    /\ UNCHANGED hookVars

NextNoYup ==
    \/ NoYupAppSubmit
    \/ AppSubmitResolved
    \/ AppSubmitRejected

SpecNoYup == InitNoYup /\ [][NextNoYup]_vars

-----------------------------------------------------------------------------
(* The hook examples, each run on its own from the first render *)

SpecFormReducer == InitApp /\ [][NextFormReducer]_vars

SpecNotifications == InitApp /\ [][NextNotifications]_vars

SpecFetch == InitApp /\ [][NextFetch]_vars

-----------------------------------------------------------------------------
(* The routed pages: TodosListPage at "/", TodoFormPage at "/add" and      *)
(* "/edit/:id".  The list state of TodosListPage is todos, loading, error  *)
(* and loads, as for App.  A visit of "/add" or "/edit/:id" creates a      *)
(* TodoFormPage instance; pages keeps the state of each instance.          *)

\* getTodoById up to its await
\* (the id argument is <<>> for undefined/null, <<n>> for the identifier n)
getTodoById(id) ==
    IF id = <<>>
    THEN [sent |-> FALSE, message |-> "Todo id is required"]
    ELSE [sent |-> TRUE, id |-> id[1]]

\* GET /todos/{id} of the store
StoreTodo(id) == CHOOSE t \in {InitialTodos[i] : i \in DOMAIN InitialTodos} : t.id = id

\* the current TodoFormPage instance, 0 when the list page is shown
Current == IF pages # <<>> /\ pages[Len(pages)].live THEN Len(pages) ELSE 0

\* TodoFormPage renders its TodoForm once it is neither loading nor failed
FormShown == Current # 0 /\ ~pages[Current].loading /\ pages[Current].error = nullMsg

\* the props TodoFormPage passes to TodoForm: initialData and onSuccess
PageFormProps == {"initialData", "onSuccess"}

InitPages ==
    /\ todos = <<>>
    /\ loading = TRUE
    /\ error = nullMsg
    /\ showForm = FALSE
    /\ editingTodo = null
    /\ loads = <<[mounted |-> TRUE]>>
    /\ values = EmptyDefaults
    /\ defaultValues = EmptyDefaults
    /\ errors = NoErrors
    /\ isSubmitted = FALSE
    /\ isSubmitting = FALSE
    /\ submitError = nullMsg
    /\ pending = <<>>
    /\ nextId = Len(InitialTodos) + 1
    /\ calls = 0
    /\ route = "/"
    /\ pages = <<>>
    /\ gets = <<>>
    /\ last = [ev |-> "init"]
    /\ InitHooks

\* first render and effect of a TodoFormPage instance for route parameter id
\* (0 on "/add"): in edit mode it is loading and calls getTodoById(id)
FormPageMount(id) ==
    /\ pages' = Append(pages, [id |-> id, initialData |-> null, loading |-> id # 0,
                               error |-> nullMsg, live |-> TRUE])
    /\ IF id # 0
       THEN /\ gets' = Append(gets, [inst |-> Len(pages) + 1, id |-> getTodoById(<<id>>).id])
            /\ UNCHANGED formVars
       ELSE /\ UNCHANGED gets
            /\ FormMount(null)

\* the page instance is torn down, and its TodoForm with it: the state of the
\* form is dropped, and the continuation of a submit it has in flight can
\* only call the setters of the dropped form (TodoFormPage passes no callback
\* that TodoForm calls)
FormPageUnmount ==
    /\ pages' = [pages EXCEPT ![Len(pages)].live = FALSE]
    /\ FormMount(null)
    /\ pending' = <<>>

\* navigate('/'), from the Back button, the nav link or handleFormSubmit
NavigateToList ==
    /\ route' = "/"
    /\ FormPageUnmount
    /\ ListMount
    /\ UNCHANGED gets

\* a settled getTodos call of a TodosListPage instance
PagesLoadResolved ==
    /\ \E i \in DOMAIN loads :
         /\ GetTodosResolved(i, InitialTodos)
         /\ last' = [ev |-> "loaded", mounted |-> loads[i].mounted]
    /\ UNCHANGED <<showForm, editingTodo, formVars, pageVars, pending, nextId, calls>>
    /\ UNCHANGED hookVars

PagesLoadRejected ==
    /\ \E i \in DOMAIN loads :
         /\ \E e \in AxiosErrors : GetTodosRejected(i, e)
         /\ last' = [ev |-> "loadFailed", mounted |-> loads[i].mounted]
    /\ UNCHANGED <<showForm, editingTodo, formVars, pageVars, pending, nextId, calls>>
    /\ UNCHANGED hookVars

\* "+ Add New Todo" of the list page: navigate('/add')
PagesClickAdd ==
    /\ route = "/"
    /\ TableShown
    /\ Len(pages) < MaxVisits
    /\ route' = "/add"
    /\ ListCleanup
    /\ FormPageMount(0)
    /\ last' = [ev |-> "navigate"]
    /\ UNCHANGED <<todos, loading, error, showForm, editingTodo, pending, nextId, calls>>
    /\ UNCHANGED hookVars

\* "Edit" of a row of the list page: navigate(`/edit/${t.id}`)
PagesClickEdit ==
    /\ route = "/"
    /\ TableShown
    /\ Len(pages) < MaxVisits
    /\ route' = "/edit"
    /\ ListCleanup
    /\ \E i \in DOMAIN todos : FormPageMount(todos[i].id)
    /\ last' = [ev |-> "navigate"]
    /\ UNCHANGED <<todos, loading, error, showForm, editingTodo, pending, nextId, calls>>
    /\ UNCHANGED hookVars

\* the browser's Back button on the list page: the form route left before
\* is shown again, whatever the list page is doing
PagesHistoryBack ==
    /\ route = "/"
    /\ pages # <<>>
    /\ Len(pages) < MaxVisits
    /\ route' = IF pages[Len(pages)].id = 0 THEN "/add" ELSE "/edit"
    /\ ListCleanup
    /\ FormPageMount(pages[Len(pages)].id)
    /\ last' = [ev |-> "navigate"]
    /\ UNCHANGED <<todos, loading, error, showForm, editingTodo, pending, nextId, calls>>
    /\ UNCHANGED hookVars

\* "Back to List" or the nav link, on a form page
PagesClickBack ==
    /\ route # "/"
    /\ NavigateToList
    /\ last' = [ev |-> "navigate"]
    /\ UNCHANGED <<showForm, editingTodo, nextId, calls>>
    /\ UNCHANGED hookVars

\* the route parameter of the edit page changes (a history entry of another
\* edit route is chosen): React Router keeps the TodoFormPage instance, and
\* the effect runs again for the new id; loading, error and initialData keep
\* their values and the call made for the old id stays in flight
PagesRouteIdChange ==
    /\ route = "/edit"
    /\ Current # 0
    /\ Cardinality({k \in DOMAIN gets : gets[k].inst = Current}) < 2
    /\ \E i \in DOMAIN InitialTodos :
         /\ InitialTodos[i].id # pages[Current].id
         /\ pages' = [pages EXCEPT ![Current].id = InitialTodos[i].id]
         /\ gets' = Append(gets, [inst |-> Current,
                                  id |-> getTodoById(<<InitialTodos[i].id>>).id])
    /\ last' = [ev |-> "navigate"]
    /\ UNCHANGED <<appVars, formVars, route, pending, nextId, calls>>
    /\ UNCHANGED hookVars

\* getTodoById resolved: .then of the effect of instance gets[k].inst
GetByIdResolved(k) ==
    /\ pages' = [pages EXCEPT ![gets[k].inst].initialData = StoreTodo(gets[k].id),
                              ![gets[k].inst].loading = FALSE]
    /\ gets' = Remove(gets, k)

\* getTodoById rejected: .catch of the effect of instance gets[k].inst
GetByIdRejected(k, e) ==
    /\ pages' = [pages EXCEPT ![gets[k].inst].error =
                                   LET m == NormalizeError(e, "Unknown error fetching todo")
                                   IN IF m # "" THEN m ELSE "Error",
                              ![gets[k].inst].loading = FALSE]
    /\ gets' = Remove(gets, k)

PagesGetResolved ==
    /\ \E k \in DOMAIN gets :
         /\ GetByIdResolved(k)
         /\ IF gets[k].inst = Current /\ pages[Current].loading
                 /\ pages[Current].error = nullMsg
            THEN FormMount(StoreTodo(gets[k].id))
            ELSE UNCHANGED formVars
         /\ last' = [ev |-> "got", live |-> pages[gets[k].inst].live]
    /\ UNCHANGED <<appVars, route, pending, nextId, calls>>
    /\ UNCHANGED hookVars

PagesGetRejected ==
    /\ \E k \in DOMAIN gets :
         /\ \E e \in AxiosErrors : GetByIdRejected(k, e)
         /\ last' = [ev |-> "getFailed", live |-> pages[gets[k].inst].live]
    /\ UNCHANGED <<appVars, formVars, route, pending, nextId, calls>>
    /\ UNCHANGED hookVars

PagesChange ==
    /\ FormShown
    /\ \/ \E v \in PageTitles : FormChange("title", v)
       \/ \E v \in BOOLEAN : FormChange("completed", v)
    /\ last' = [ev |-> "change"]
    /\ UNCHANGED <<appVars, pageVars, pending, nextId, calls>>
    /\ UNCHANGED hookVars

PagesSubmit ==
    /\ FormShown
    /\ calls < MaxPageCalls
    /\ FormSubmit(pages[Current].initialData, [inst |-> Current])
    /\ UNCHANGED <<appVars, pageVars, nextId>>
    /\ UNCHANGED hookVars

\* handleFormSubmit of TodoFormPage
handleFormSubmit == NavigateToList

\* the store call of a submit resolved: reset(), onSubmitSuccess(result) if
\* that prop was passed, setIsSubmitting(false)
PagesSubmitResolved ==
    /\ \E i \in DOMAIN pending :
         /\ IF "onSubmitSuccess" \in PageFormProps
            THEN /\ handleFormSubmit
                 /\ last' = [ev |-> "resolved", handed |-> 1]
            ELSE /\ FormResolved
                 /\ pending' = Remove(pending, i)
                 /\ last' = [ev |-> "resolved", handed |-> 0]
                 /\ UNCHANGED <<todos, loading, error, loads, pageVars>>
         /\ nextId' = IF pending[i].req.op = "create" THEN nextId + 1 ELSE nextId
    /\ UNCHANGED <<showForm, editingTodo, calls>>
    /\ UNCHANGED hookVars

PagesSubmitRejected ==
    /\ \E i \in DOMAIN pending :
         /\ \E e \in AxiosErrors : FormRejected(pending[i].req, e)
         /\ pending' = Remove(pending, i)
    /\ last' = [ev |-> "rejected"]
    /\ UNCHANGED <<appVars, pageVars, nextId, calls>>
    /\ UNCHANGED hookVars

\* Cancel of the form: TodoFormPage passes no onCancel
PagesCancel ==
    /\ FormShown
    /\ FormCancel
    /\ values' # values \/ errors' # errors
    /\ last' = [ev |-> "cancel"]
    /\ UNCHANGED <<appVars, pageVars, pending, nextId, calls>>
    /\ UNCHANGED hookVars

NextPages ==
    \/ PagesLoadResolved
    \/ PagesLoadRejected
    \/ PagesClickAdd
    \/ PagesClickEdit
    \/ PagesHistoryBack
    \/ PagesClickBack
    \/ PagesGetResolved
    \/ PagesGetRejected
    \/ PagesChange
    \/ PagesSubmit
    \/ PagesSubmitResolved
    \/ PagesSubmitRejected
    \/ PagesCancel

SpecPages == InitPages /\ [][NextPages]_vars

\* the edit page reached from the list and kept mounted, with history
\* navigation between edit routes
NextEditRoute ==
    \/ PagesLoadResolved
    \/ PagesClickEdit
    \/ PagesRouteIdChange
    \/ PagesGetResolved
    \/ PagesGetRejected

SpecEditRoute == InitPages /\ [][NextEditRoute]_vars

-----------------------------------------------------------------------------
(* The Data Access Layer called directly (SpecDal): one call at a time,    *)
(* with any arguments a caller can pass.  pending holds the request of the *)
(* call in flight, calls counts the requests the store received, last      *)
(* records the call, the requests it sent and the outcomes it produced.    *)

\* the restriction of record r to the fields fs (an object literal that
\* leaves the other fields out)
Pick(r, fs) == [f \in fs |-> r[f]]

\* the id arguments of a call: undefined/null, or an identifier of the store
DalIds == {<<>>, <<1>>, <<2>>}

\* the todoData arguments of a call: each field given or left out
DalTodoData ==
    { Pick([title |-> t, completed |-> c, userId |-> u], fs) :
        t \in {<<>>, T_blank, T_ab, T_abc}, c \in BOOLEAN, u \in {0, 1, 7},
        fs \in SUBSET {"title", "completed", "userId"} }

\* getTodos(params) up to its await: it has no guard
getTodos(params) == [sent |-> TRUE, op |-> "list", params |-> params]

\* the last resort message of each catch block
DalFallback(op) ==
    IF op = "list" THEN "Unknown error fetching todos"
    ELSE IF op = "get" THEN "Unknown error fetching todo"
    ELSE SubmitFallback(op)

\* response.data of the request req
DalResponse(op, req) ==
    IF op = "list" THEN InitialTodos
    ELSE IF op = "get" THEN StoreTodo(req.id)
    ELSE StoreResponse(req, nextId)

\* the exported service functions by name; a caller of getTodos in the
\* repository passes no params, so the default {} applies
DalService(op, id, todoData) ==
    IF op = "list" THEN getTodos(<<>>)
    ELSE IF op = "get" THEN getTodoById(id)
    ELSE IF op = "create" THEN addTodo(todoData)
    ELSE updateTodo(id, todoData)

\* a service function runs up to its await: the guard throws, or the one
\* request of the call is sent
DalCall(op, id, todoData) ==
    LET r == DalService(op, id, todoData) IN
    /\ pending = <<>>
    /\ calls < MaxCalls
    /\ IF r.sent
       THEN /\ pending' = <<[req |-> r, op |-> op]>>
            /\ calls' = calls + 1
            /\ last' = [ev |-> "dal", op |-> op, id |-> id, todoData |-> todoData,
                        requests |-> 1, outcomes |-> <<>>]
       ELSE /\ UNCHANGED <<pending, calls>>
            /\ last' = [ev |-> "dal", op |-> op, id |-> id, todoData |-> todoData,
                        requests |-> 0,
                        outcomes |-> <<[ok |-> FALSE, message |-> r.message]>>]
    /\ UNCHANGED <<appVars, formVars, pageVars, nextId>>
    /\ UNCHANGED hookVars

DalGetTodos == DalCall("list", <<>>, null)

DalGetTodoById == \E id \in DalIds : DalCall("get", id, null)

DalAddTodo == \E d \in DalTodoData : DalCall("create", <<>>, d)

DalUpdateTodo ==
    \E id \in DalIds, d \in DalTodoData : DalCall("update", id, d)

\* the awaited request succeeded: return response.data
DalResolved ==
    /\ pending # <<>>
    /\ last' = [last EXCEPT !.outcomes =
                  Append(@, [ok |-> TRUE, data |-> DalResponse(pending[1].op, pending[1].req)])]
    /\ nextId' = IF pending[1].op = "create" THEN nextId + 1 ELSE nextId
    /\ pending' = <<>>
    /\ UNCHANGED <<appVars, formVars, pageVars, calls>>
    /\ UNCHANGED hookVars

\* a catch block that sends the request again before giving up
DalRejected_retry(e) ==
    /\ pending # <<>>
    /\ IF last.requests < 2
       THEN /\ last' = [last EXCEPT !.requests = @ + 1]
            /\ UNCHANGED pending
       ELSE /\ last' = [last EXCEPT !.outcomes =
                   Append(@, [ok |-> FALSE,
                              message |-> NormalizeError(e, DalFallback(pending[1].op))])]
            /\ pending' = <<>>
    /\ UNCHANGED <<appVars, formVars, pageVars, nextId, calls>>
    /\ UNCHANGED hookVars

\* the awaited request failed with the axios error e: the catch block throws
\* one Error with the normalized message
DalRejected(e) ==
    /\ pending # <<>>
    /\ last' = [last EXCEPT !.outcomes =
                  Append(@, [ok |-> FALSE,
                             message |-> NormalizeError(e, DalFallback(pending[1].op))])]
    /\ pending' = <<>>
    /\ UNCHANGED <<appVars, formVars, pageVars, nextId, calls>>
    /\ UNCHANGED hookVars

DalSettleRejected == \E e \in AxiosErrors : DalRejected(e)

\* the module after import: no call made yet
InitDal == InitApp

NextDal ==
    \/ DalGetTodos
    \/ DalGetTodoById
    \/ DalAddTodo
    \/ DalUpdateTodo
    \/ DalResolved
    \/ DalSettleRejected

SpecDal == InitDal /\ [][NextDal]_vars

-----------------------------------------------------------------------------
(* Properties of the form and of the combined list + form view (SpecApp) *)

IsSubmitStep == last'.ev = "submit"

\* C1: a submit attempt on a draft that fails validation makes no create or
\* update call, shows the field errors of the draft, and leaves the form in
\* Editing with isSubmitting false.
C1_InvalidSubmitBlocked ==
    [][(IsSubmitStep /\ todoValidationSchema(values) # NoErrors) =>
          /\ calls' = calls
          /\ pending' = pending
          /\ errors' = todoValidationSchema(values)
          /\ errors' # NoErrors
          /\ ~isSubmitting'
          /\ values' = values
          /\ showForm']_vars

C1_Witness ==
    /\ last = [ev |-> "submit", outcome |-> "invalid"]
    /\ "title" \in DOMAIN errors
    /\ "userId" \in DOMAIN errors
    /\ calls = 0

\* C2: at most one create/update call of the form is in flight at any time,
\* and no step taken while isSubmitting is true sends a request.
C2_OneOutstandingSubmit ==
    [][/\ Len(pending') <= 1
       /\ isSubmitting => calls' = calls]_vars

C2_Witness ==
    /\ Len(pending) = 1
    /\ isSubmitting
    /\ calls = MaxCalls

\* C3: when the store call of a submit rejects, the form stays open, the
\* submitError is a non-empty message, the draft is unchanged, the success
\* callback has not run (list, form visibility and selection unchanged) and
\* isSubmitting is false.
C3_RejectKeepsDraft ==
    [][(last'.ev = "rejected") =>
          /\ submitError' \notin {nullMsg, ""}
          /\ values' = values
          /\ ~isSubmitting'
          /\ showForm'
          /\ todos' = todos
          /\ editingTodo' = editingTodo]_vars

C3_Witness ==
    /\ last.ev = "rejected"
    /\ submitError = "No response received from Todos API"
    /\ values # defaultValues
    /\ showForm

C6_CreateOrUpdate ==
    [][/\ calls' \in {calls, calls + 1}
       /\ calls' = calls + 1 =>
            /\ Len(pending') = Len(pending) + 1
            /\ LET r == pending'[Len(pending')].req
               IN /\ r.payload = Payload(YupCast(values))
                  /\ IF editingTodo # null /\ Has(editingTodo, "id")
                     THEN r.op = "update" /\ r.id = editingTodo.id
                     ELSE r.op = "create"]_vars

C6_Witness ==
    /\ calls = 2
    /\ Len(pending) = 1
    /\ pending[1].req.op = "update"
    /\ pending[1].req.id = 2
    /\ nextId = 4

IsResolveStep(op) ==
    /\ last'.ev = "resolved"
    /\ Len(pending) = 1
    /\ pending[1].req.op = op

Occurrences(s, x) == Cardinality({i \in DOMAIN s : s[i] = x})

\* C7: after a successful create response the list is one longer than before,
\* the new Todo is at its front and occurs in it exactly once.
C7_AddPrepends ==
    [][IsResolveStep("create") =>
          /\ Len(todos') = Len(todos) + 1
          /\ todos'[1] = last'.result
          /\ Occurrences(todos', last'.result) = 1]_vars

\* C8: after a successful update response for identifier X, exactly one entry
\* has identifier X and it is the returned Todo; every other entry, the length
\* and the order of the list are unchanged.
C8_UpdateReplaces ==
    [][IsResolveStep("update") =>
          LET X == last'.result.id
          IN /\ Len(todos') = Len(todos)
             /\ Cardinality({i \in DOMAIN todos' : todos'[i].id = X}) = 1
             /\ \A i \in DOMAIN todos :
                  todos'[i] = IF todos[i].id = X THEN last'.result ELSE todos[i]]_vars

C8_Witness ==
    /\ last.ev = "resolved"
    /\ Len(todos) = 2
    /\ todos[1] = InitialTodos[1]
    /\ todos[2].id = 2
    /\ todos[2] # InitialTodos[2]
    /\ todos[2] = last.result

-----------------------------------------------------------------------------
(* Properties of the routed pages (SpecPages) *)

\* C5: on the add/edit page every successful form submission is followed by
\* navigation back to the list route "/".
C5_SuccessNavigatesToList ==
    [][(last'.ev = "resolved") => route' = "/"]_vars

\* C9: when a list load settles (resolves or rejects) after the list view
\* that started it was torn down, todos, error and loading are not changed;
\* nothing changes them while no list view is shown.
C9_TornDownLoadDiscarded ==
    [][/\ (last'.ev \in {"loaded", "loadFailed"} /\ ~last'.mounted) =>
            UNCHANGED <<todos, loading, error>>
       /\ (route # "/" /\ route' # "/") =>
            UNCHANGED <<todos, loading, error>>]_vars

C9_Witness ==
    /\ last = [ev |-> "loaded", mounted |-> FALSE]
    /\ route # "/"
    /\ loading
    /\ todos = <<>>

\* C10: no state of a TodoFormPage instance (initialData, loading, error) is
\* written after the instance was torn down.
C10_NoWriteAfterTeardown ==
    [][\A k \in DOMAIN pages : ~pages[k].live => pages'[k] = pages[k]]_vars

-----------------------------------------------------------------------------
(* Properties of the Data Access Layer called directly (SpecDal) *)

\* a service function is called in this step
IsDalCallStep == pending = <<>> /\ last'.ev = "dal"

\* the call of this step was rejected with message m and sent nothing
DalGuardRejected(m) ==
    /\ calls' = calls
    /\ pending' = <<>>
    /\ last'.requests = 0
    /\ last'.outcomes = <<[ok |-> FALSE, message |-> m]>>

\* a title that is given and is empty or made of spaces only
BlankTitle(d) == Has(d, "title") /\ \A i \in DOMAIN d.title : d.title[i] = " "

\* C11: a call with invalid arguments is rejected and no request is sent:
\* getTodoById and updateTodo reject with 'Todo id is required' when the id is
\* undefined or null; addTodo, and updateTodo called with an id, reject with
\* 'Todo title is required' when the title is empty or whitespace-only.
C11_GuardsRejectWithoutRequest ==
    [][ IsDalCallStep =>
          /\ (last'.op \in {"get", "update"} /\ last'.id = <<>>)
                => DalGuardRejected("Todo id is required")
          /\ ( /\ last'.op = "create" \/ (last'.op = "update" /\ last'.id # <<>>)
               /\ BlankTitle(last'.todoData) )
                => DalGuardRejected("Todo title is required") ]_vars

C11_Witness ==
    /\ last.ev = "dal"
    /\ last.op = "update"
    /\ last.id = <<2>>
    /\ Has(last.todoData, "title") /\ last.todoData.title = T_blank
    /\ last.requests = 0
    /\ last.outcomes = <<[ok |-> FALSE, message |-> "Todo title is required"]>>

\* C12: the payload of every create or update request carries the given
\* title, completed = false when completed is not given, userId = 1 when
\* userId is not given, and a given completed or userId value unchanged.
C12_PayloadDefaults ==
    [][ (IsDalCallStep /\ last'.op \in {"create", "update"} /\ last'.requests = 1) =>
          LET d == last'.todoData
              p == pending'[1].req.payload
          IN /\ p.title = d.title
             /\ p.completed = (IF Has(d, "completed") THEN d.completed ELSE FALSE)
             /\ p.userId = (IF Has(d, "userId") THEN d.userId ELSE 1) ]_vars

\* C13: a call sends at most one request and produces exactly one outcome,
\* the response data or one error whose message is not empty, whatever the
\* shape of the failure; a failed request is not sent again.
C13_OneRequestOneOutcome ==
    last.ev = "dal" =>
        /\ last.requests <= 1
        /\ Len(last.outcomes) <= 1
        /\ (pending = <<>>) <=> (Len(last.outcomes) = 1)
        /\ pending # <<>> => last.requests = 1
        /\ \A i \in DOMAIN last.outcomes :
              ~last.outcomes[i].ok => last.outcomes[i].message # ""

C13_Witness ==
    /\ last.ev = "dal"
    /\ last.op = "create"
    /\ last.requests = 1
    /\ pending = <<>>
    /\ last.outcomes = <<[ok |-> FALSE, message |-> "Unknown error creating todo"]>>

-----------------------------------------------------------------------------
(* Properties of the validation schema (SpecValidation) *)

TitleInRange  == Len(values.title) >= 3 /\ Len(values.title) <= 100
UserIdInRange == values.userId # <<>> /\ values.userId[1] >= 1 /\ values.userId[1] <= 10

\* C14: a submit of a draft whose title is shorter than 3 or longer than 100
\* characters reports a title error and makes no store call; the draft
\* {title: 'ab', userId: 1} yields exactly the title error 'Title must be at
\* least 3 characters'.
C14_TitleLengthEnforced ==
    [][ IsSubmitStep =>
          /\ ~TitleInRange =>
                /\ "title" \in DOMAIN errors'
                /\ last'.outcome = "invalid"
                /\ calls' = calls /\ pending' = pending
          /\ (values.title = T_ab /\ values.userId = <<1>>) =>
                errors' = [title |-> "Title must be at least 3 characters"] ]_vars

C14_Witness ==
    /\ last.ev = "submit" /\ last.outcome = "invalid"
    /\ Len(values.title) = 101
    /\ values.userId = <<1>>
    /\ errors = [title |-> "Title must not exceed 100 characters"]
    /\ calls = 0

\* C15: a submit reports a userId error exactly when the userId of the draft
\* is not a number or lies outside [1, 10].
C15_UserIdRangeEnforced ==
    [][ IsSubmitStep => (("userId" \in DOMAIN errors') <=> ~UserIdInRange) ]_vars

C15_Witness ==
    /\ last.ev = "submit" /\ last.outcome = "invalid"
    /\ values.userId = <<>>
    /\ values.title = T_abc
    /\ DOMAIN errors = {"userId"}

\* C16: title and userId are validated independently: each field has an
\* error exactly when it violates its own rule, a draft violating both gets
\* both errors in the same result, and the result is empty exactly when the
\* title length is in [3, 100] and the userId is in [1, 10].
C16_FieldsIndependent ==
    [][ IsSubmitStep =>
          /\ ("title" \in DOMAIN errors') <=> ~TitleInRange
          /\ ("userId" \in DOMAIN errors') <=> ~UserIdInRange
          /\ (~TitleInRange /\ ~UserIdInRange) => DOMAIN errors' = {"title", "userId"}
          /\ (errors' = NoErrors) <=> (TitleInRange /\ UserIdInRange) ]_vars

C16_Witness ==
    /\ last.ev = "submit" /\ last.outcome = "invalid"
    /\ values.title = T_ab
    /\ values.userId = <<11>>
    /\ errors = [title |-> "Title must be at least 3 characters",
                 userId |-> "User ID must not exceed 10"]

-----------------------------------------------------------------------------
(* Properties of the form in the combined list + form view, continued      *)
(* (SpecApp)                                                               *)

\* C17: a submitted draft that passes the validation of the form is never
\* rejected by a guard of addTodo or updateTodo: its call is sent.
C17_ValidDraftPassesGuards ==
    [][ (IsSubmitStep /\ errors' = NoErrors) =>
          /\ last'.outcome = "sent"
          /\ submitError' \notin {"Todo title is required", "Todo id is required"} ]_vars

\* C18: while the form is open for the selected todo X its draft was seeded
\* from the fields of X, and while it is open in add mode its draft was seeded
\* from {title: '', completed: false, userId: 1}; so the values of every
\* update call for X derive from a draft seeded from X.
C18_DraftSeededFromSelection ==
    showForm =>
        defaultValues =
            IF editingTodo # null
            THEN [title |-> editingTodo.title, completed |-> editingTodo.completed,
                  userId |-> <<editingTodo.userId>>]
            ELSE [title |-> <<>>, completed |-> FALSE, userId |-> <<1>>]

\* C19: Cancel discards the draft whether or not it was edited, makes no
\* store call and leaves the list unchanged; afterwards the form is closed
\* and no todo is selected.
C19_CancelDiscardsDraft ==
    [][ (showForm /\ last'.ev = "cancel") =>
          /\ values' = defaultValues
          /\ errors' = NoErrors
          /\ calls' = calls /\ pending' = pending
          /\ todos' = todos
          /\ ~showForm'
          /\ editingTodo' = null ]_vars

C19_Witness ==
    /\ last = [ev |-> "cancel", edited |-> TRUE]
    /\ ~showForm
    /\ editingTodo = null
    /\ values = defaultValues
    /\ todos # <<>>

-----------------------------------------------------------------------------
(* Properties of the Data Access Layer called directly, continued (SpecDal) *)

\* C21: updateTodo(id, {completed: true}), a partial record without a title,
\* sends its request, and resolves to the updated todo when the store accepts
\* it.
C21_PartialUpdateResolves ==
    [][ ( /\ IsDalCallStep
          /\ last'.op = "update"
          /\ last'.id = <<1>>
          /\ last'.todoData = [completed |-> TRUE] ) =>
          /\ last'.requests = 1
          /\ last'.outcomes = <<>>
          /\ Len(pending') = 1 ]_vars

-----------------------------------------------------------------------------
(* Properties of the submit cycle of the form (SpecApp) *)

\* C22: while isSubmitting is true submitError is unset: starting a submit
\* sets isSubmitting and clears a previous submitError, and submitError is
\* only set in a step that leaves isSubmitting false.
C22_SubmittingHasNoError ==
    [][ /\ isSubmitting' => submitError' = nullMsg
        /\ (submitError' # nullMsg /\ submitError' # submitError) => ~isSubmitting'
        /\ (IsSubmitStep /\ last'.outcome = "sent") =>
              isSubmitting' /\ submitError' = nullMsg ]_vars

C22_Witness ==
    /\ last = [ev |-> "submit", outcome |-> "sent", retry |-> TRUE]
    /\ isSubmitting
    /\ submitError = nullMsg

\* C23: a form that is Submitting eventually leaves Submitting once its call
\* settles; a failed submit leaves the form not submitting, with its draft
\* kept and the submit enabled, and a submit made then issues a new create or
\* update call.
C23_SubmitSettlesAndRetries ==
    /\ isSubmitting ~> ~isSubmitting
    /\ [][ last'.ev = "rejected" =>
             /\ ~isSubmitting'
             /\ ~SubmitDisabled'
             /\ values' = values
             /\ errors' = NoErrors ]_vars
    /\ [][ (last.ev = "rejected" /\ IsSubmitStep) =>
             /\ last'.outcome = "sent"
             /\ calls' = calls + 1
             /\ Len(pending') = Len(pending) + 1 ]_vars

C23_Witness ==
    /\ last.ev = "submit" /\ last.outcome = "sent" /\ last.retry
    /\ calls = 2
    /\ Len(pending) = 1
    /\ isSubmitting

-----------------------------------------------------------------------------
(* Properties of the list load of the routed list page (SpecPages) *)

\* the getTodos calls in flight whose list view is still mounted
MountedLoads == {i \in DOMAIN loads : loads[i].mounted}

\* C24: while the list view is mounted, loading is true from activation
\* until its single load settles; on success todos is the returned sequence
\* and error stays null; on failure error is the normalized message and todos
\* is unchanged; after either outcome loading is false; the table is shown
\* only when loading is false and error is null.
C24_ListLoadLifecycle ==
    [][ /\ route' = "/" =>
              /\ Cardinality({i \in DOMAIN loads' : loads'[i].mounted}) <= 1
              /\ loading' <=> (\E i \in DOMAIN loads' : loads'[i].mounted)
              /\ TableShown' => (~loading' /\ error' = nullMsg)
        /\ (last'.ev = "loaded" /\ last'.mounted) =>
              /\ loading /\ ~loading'
              /\ todos' = InitialTodos
              /\ error' = nullMsg
        /\ (last'.ev = "loadFailed" /\ last'.mounted) =>
              /\ loading /\ ~loading'
              /\ todos' = todos
              /\ error' \in {"API error 500: {}",
                             "No response received from Todos API",
                             "Unknown error fetching todos"} ]_vars

C24_Witness ==
    /\ route = "/"
    /\ last = [ev |-> "loadFailed", mounted |-> TRUE]
    /\ ~loading
    /\ error = "No response received from Todos API"
    /\ todos = <<>>
    /\ MountedLoads = {}

-----------------------------------------------------------------------------
(* Properties of TodoFormWithoutYup against TodoForm (SpecNoYup) *)

\* the call TodoForm issues for the draft in the form: validation by the
\* resolver, then the service call for the cast data
YupCallFor(initialData, draft) ==
    IF resolver(draft) # NoErrors
    THEN [sent |-> FALSE, message |-> "invalid"]
    ELSE SubmitCall(initialData, YupCast(draft))

\* C25: for every draft TodoFormWithoutYup issues a create or update call
\* exactly when TodoForm does, and then with the same operation, title,
\* completed and userId.
C25_VariantsIssueSameCall ==
    [][ IsSubmitStep =>
          /\ (last'.outcome = "sent") <=> YupCallFor(editingTodo, values).sent
          /\ last'.outcome = "sent" =>
                pending'[Len(pending')].req = YupCallFor(editingTodo, values) ]_vars

-----------------------------------------------------------------------------
(* Properties of the hook examples *)

\* C26: SET_FIELD for field f sets f to the new value and clears the error of
\* f only: every other field value, the error of every other field and the
\* submitted flag are unchanged; an action of an unknown type leaves the
\* state unchanged.
C26_SetFieldFrame ==
    [][ /\ dispatched'.type = "SET_FIELD" =>
             LET f == dispatched'.field
             IN /\ formState'[f] = dispatched'.value
                /\ formState'.errors[f] = ""
                /\ DOMAIN formState' = DOMAIN formState
                /\ \A g \in DOMAIN formState \ {f, "errors"} :
                      formState'[g] = formState[g]
                /\ DOMAIN formState'.errors = DOMAIN formState.errors \cup {f}
                /\ \A g \in DOMAIN formState.errors \ {f} :
                      formState'.errors[g] = formState.errors[g]
        /\ dispatched'.type \notin {"SET_FIELD", "SET_ERROR", "RESET_FORM", "SUBMIT"} =>
             formState' = formState ]_vars

C26_Witness ==
    /\ dispatched = [type |-> "SET_FIELD", field |-> "firstName", value |-> E_a]
    /\ formState.firstName = E_a
    /\ formState.errors = [firstName |-> "", email |-> "Valid email required"]
    /\ formState.submitted = FALSE

C30_FetchStateConsistent ==
    /\ ~(fetchState.data # null /\ fetchState.error # nullMsg)
    /\ fetchState.loading => (fetchState.data = null /\ fetchState.error = nullMsg)
    /\ fetches # <<>> => fetchState.loading

-----------------------------------------------------------------------------
(* Properties of concurrent completions (SpecApp, SpecPages) *)

\* the identifiers of the todos in the list
ListedIds == {todos[i].id : i \in DOMAIN todos}

\* C28: once the initial list load has succeeded and every submit has
\* settled, in whichever order they completed, the list holds every todo the
\* load returned and every todo the store created.
C28_CompletionsKeepBothResults ==
    (loads = <<>> /\ pending = <<>> /\ ~loading /\ error = nullMsg) =>
        /\ {InitialTodos[i].id : i \in DOMAIN InitialTodos} \subseteq ListedIds
        /\ (Len(InitialTodos) + 1 .. nextId - 1) \subseteq ListedIds

\* C29: on the edit page, once every get-by-id call of the page has
\* resolved, initialData is the todo of the identifier now in the route,
\* whatever the order in which the calls settled.
C29_LatestIdWins ==
    \A k \in DOMAIN pages :
        ( /\ pages[k].live
          /\ pages[k].id # 0
          /\ pages[k].error = nullMsg
          /\ pages[k].initialData # null
          /\ \A g \in DOMAIN gets : gets[g].inst # k ) =>
            pages[k].initialData.id = pages[k].id

====
